---- MODULE Spec2Model ----
(***************************************************************************)
(* A model of marc_to_readable.converters.marcxml_to_readable and of the   *)
(* helpers it calls (get_stripped_subfield, get_stripped_subfields,        *)
(* utils.reverse_name).                                                    *)
(*                                                                         *)
(* A Python str is a sequence of one-character strings, so that strip,     *)
(* the regular expressions, lower(), split and slicing are computed as the *)
(* code computes them.  A parsed pymarc Record is a sequence of fields; a  *)
(* field has a tag, a value (control fields) and an ordered sequence of    *)
(* (code, value) subfields in which a code may repeat.                     *)
(***************************************************************************)
EXTENDS Integers, Sequences, FiniteSets, TLC

VARIABLES records, skip_digital, idx, results, origin, pc, error,
          value, cleaned, recleaned

vars == <<records, skip_digital, idx, results, origin, pc, error,
          value, cleaned, recleaned>>

(***************************************************************************)
(* Python values                                                           *)
(***************************************************************************)

\* Python's None where a str is expected: no string of characters equals it.
None == <<"None">>

\* Optional[int]: absent is the empty tuple, the integer n is <<n>>.
NoInt == <<>>

SomeInt(n) == <<n>>

\* Truthiness of an Optional[str]: None and "" are false.
Truthy(v) == v # None /\ v # <<>>

MinOf(S) == CHOOSE m \in S : \A n \in S : m <= n

MaxOf(S) == CHOOSE m \in S : \A n \in S : n <= m

\* The characters str.strip() removes and \s matches.
Whitespace == {" ", "\t", "\n"}

Digits == <<"0", "1", "2", "3", "4", "5", "6", "7", "8", "9">>

IsDigit(c) == \E d \in 1..Len(Digits) : Digits[d] = c

DigitValue(c) == (CHOOSE d \in 1..Len(Digits) : Digits[d] = c) - 1

UpperCase == <<"A", "B", "C", "D", "E", "F", "G", "H", "I", "J", "K", "L", "M",
               "N", "O", "P", "Q", "R", "S", "T", "U", "V", "W", "X", "Y", "Z",
               "Ä", "Õ">>

LowerCase == <<"a", "b", "c", "d", "e", "f", "g", "h", "i", "j", "k", "l", "m",
               "n", "o", "p", "q", "r", "s", "t", "u", "v", "w", "x", "y", "z",
               "ä", "õ">>

\* The lower-case letter of every upper-case letter.
ToLower ==
    [c \in {UpperCase[u] : u \in 1..Len(UpperCase)} |->
        LowerCase[CHOOSE u \in 1..Len(UpperCase) : UpperCase[u] = c]]

\* str.lower(), character by character.
Lower(s) ==
    [i \in 1..Len(s) |-> IF s[i] \in DOMAIN ToLower THEN ToLower[s[i]] ELSE s[i]]

\* str.strip(chars): drop the characters of cs from both ends.
StripChars(s, cs) ==
    LET keep == {i \in 1..Len(s) : s[i] \notin cs}
    IN  IF keep = {} THEN <<>> ELSE SubSeq(s, MinOf(keep), MaxOf(keep))

\* str.strip()
Strip(s) == StripChars(s, Whitespace)

\* sub in s  (substring containment)
Contains(s, sub) ==
    \E i \in 1..(Len(s) - Len(sub) + 1) : SubSeq(s, i, i + Len(sub) - 1) = sub

\* s[lo:hi] for 0 <= lo <= hi: a slice never raises, it is cut at the end of s.
Slice(s, lo, hi) == SubSeq(s, lo + 1, IF hi < Len(s) THEN hi ELSE Len(s))

\* int(s) of a string of decimal digits.
RECURSIVE ToInt(_)
ToInt(s) ==
    IF s = <<>> THEN 0
    ELSE 10 * ToInt(SubSeq(s, 1, Len(s) - 1)) + DigitValue(s[Len(s)])

\* sep.join(parts)
RECURSIVE Join(_, _)
Join(parts, sep) ==
    IF parts = <<>> THEN <<>>
    ELSE IF Len(parts) = 1 THEN parts[1]
    ELSE parts[1] \o sep \o Join(Tail(parts), sep)

(***************************************************************************)
(* The regular expressions of converters.py                                *)
(***************************************************************************)

\* SQUARE_BRACKETS_REGEX.sub(r"\1", s): scanning from the left, every "["
\* that has a "]" after it on the same line is matched, non-greedily, up to
\* the first such "]"; the match is replaced by what is between the two and
\* the scan goes on after the "]".
RECURSIVE SquareBracketsSub(_)
SquareBracketsSub(s) ==
    LET opens == {i \in 1..Len(s) :
                    /\ s[i] = "["
                    /\ \E j \in (i + 1)..Len(s) :
                          /\ s[j] = "]"
                          /\ \A k \in (i + 1)..(j - 1) : s[k] # "\n"}
    IN  IF opens = {} THEN s
        ELSE LET i == MinOf(opens)
                 j == MinOf({j \in (i + 1)..Len(s) : s[j] = "]"})
             IN  SubSeq(s, 1, i - 1) \o SubSeq(s, i + 1, j - 1)
                    \o SquareBracketsSub(SubSeq(s, j + 1, Len(s)))

\* WHITESPACE_REGEX.sub(" ", s): every run of whitespace becomes one space.
RECURSIVE WhitespaceSub(_)
WhitespaceSub(s) ==
    IF s = <<>> THEN <<>>
    ELSE IF Head(s) \in Whitespace
         THEN LET rest == {i \in 2..Len(s) : s[i] \notin Whitespace}
              IN  <<" ">> \o (IF rest = {} THEN <<>>
                              ELSE WhitespaceSub(SubSeq(s, MinOf(rest), Len(s))))
         ELSE <<Head(s)>> \o WhitespaceSub(Tail(s))

\* re.search(YEAR_REGEX, s): the first four consecutive digits, or no match.
YearSearch(s) ==
    LET starts == {i \in 1..(Len(s) - 3) : \A k \in i..(i + 3) : IsDigit(s[k])}
    IN  IF starts = {} THEN NoInt
        ELSE SomeInt(ToInt(SubSeq(s, MinOf(starts), MinOf(starts) + 3)))

\* re.search in place of re.match: the first run of digits anywhere in s.
NumberMatch_Search(s) ==
    LET digits == {i \in 1..Len(s) : IsDigit(s[i])}
        first  == MinOf(digits)
        stops  == {i \in first..Len(s) : ~IsDigit(s[i])}
        last   == IF stops = {} THEN Len(s) ELSE MinOf(stops) - 1
    IN  IF digits = {} THEN NoInt ELSE SomeInt(ToInt(SubSeq(s, first, last)))

\* re.match(NUMBER_REGEX, s): the run of digits s starts with, or no match.
NumberMatch(s) ==
    LET stops == {i \in 1..Len(s) : ~IsDigit(s[i])}
        last  == IF stops = {} THEN Len(s) ELSE MinOf(stops) - 1
    IN  IF last = 0 THEN NoInt ELSE SomeInt(ToInt(SubSeq(s, 1, last)))

(***************************************************************************)
(* Text cleanup                                                            *)
(***************************************************************************)

\* The characters of the final .strip(";:,./[] ").
StripPunctuation == {";", ":", ",", ".", "/", "[", "]", " "}

\* A cleanup whose final strip leaves the blank out of its character set.
CleanValue_NoBlankInStrip(v) ==
    StripChars(Strip(WhitespaceSub(SquareBracketsSub(Strip(v)))),
               StripPunctuation \ {" "})

\* Lines 50-56 (and 66-72): the cleanup of one non-empty value.
CleanValue(v) ==
    StripChars(Strip(WhitespaceSub(SquareBracketsSub(Strip(v)))), StripPunctuation)

(***************************************************************************)
(* pymarc records as the code reads them                                   *)
(***************************************************************************)

ControlField(tag, data) == [tag |-> tag, data |-> data, subfields |-> <<>>]

DataField(tag, subfields) == [tag |-> tag, data |-> <<>>, subfields |-> subfields]

Subfield(code, v) == [code |-> code, value |-> v]

\* What record.get(tag) returns when the record has no such field: None.
NoField == [tag |-> "None", data |-> <<>>, subfields |-> <<>>]

\* The {} given as default in record.get("100", {}).
EmptyDict == [tag |-> "dict", data |-> <<>>, subfields |-> <<>>]

\* record.get_fields(tag): every field with the tag, in record order.
GetFields(record, tag) == SelectSeq(record, LAMBDA f : f.tag = tag)

\* record.get(tag, default): the first field with the tag, or the default.
RecordGet(record, tag, default) ==
    IF GetFields(record, tag) = <<>> THEN default ELSE Head(GetFields(record, tag))

\* if <field>: a Field object is true, None is false.
IsField(f) == f # NoField

\* field.get_subfields(code): the values of every subfield with the code.
GetSubfields(field, code) ==
    LET hits == SelectSeq(field.subfields, LAMBDA sf : sf.code = code)
    IN  [i \in 1..Len(hits) |-> hits[i].value]

\* field.get(code): the value of the first subfield with the code, or None.
FieldGet(field, code) ==
    IF GetSubfields(field, code) = <<>> THEN None ELSE Head(GetSubfields(field, code))

get_stripped_subfield(field, subfield_code) ==
    LET v == FieldGet(field, subfield_code)
    IN  IF Truthy(v) THEN CleanValue(v) ELSE <<>>

get_stripped_subfields(field, subfield_code) ==
    LET values == GetSubfields(field, subfield_code)
    IN  [i \in 1..Len(values) |-> CleanValue(values[i])]

\* utils.reverse_name: name.split(", ") has two parts exactly when ", "
\* occurs once in the name.
reverse_name(name) ==
    LET seps == {i \in 1..(Len(name) - 1) : name[i] = "," /\ name[i + 1] = " "}
    IN  IF Cardinality(seps) = 1
        THEN LET p == MinOf(seps)
             IN  SubSeq(name, p + 2, Len(name)) \o <<" ">> \o SubSeq(name, 1, p - 1)
        ELSE name

(***************************************************************************)
(* ReadableRecord and the body of the loop of marcxml_to_readable          *)
(***************************************************************************)

ReadableRecord(ester_id) ==
    [ester_id |-> ester_id, title |-> <<>>, subtitle |-> <<>>,
     part_number |-> <<>>, part_name |-> <<>>, edition |-> <<>>,
     authors |-> <<>>, publisher |-> <<>>, year_published |-> NoInt,
     city_published |-> <<>>, num_pages |-> NoInt, isbn |-> <<>>,
     series |-> <<>>, series_number |-> <<>>, dimensions |-> <<>>,
     language |-> <<>>, original_language |-> <<>>, genres |-> <<>>,
     editors |-> <<>>, publishers |-> <<>>, compilers |-> <<>>,
     illustrators |-> <<>>, translators |-> <<>>, designers |-> <<>>,
     photographers |-> <<>>]

\* x in list
InList(x, list) == \E i \in 1..Len(list) : list[i] = x

\* Lines 94-106.
ExtractTitle(result, record) ==
    LET title_field  == RecordGet(record, "245", NoField)
        part_numbers == get_stripped_subfields(title_field, "n")
        part_names   == get_stripped_subfields(title_field, "p")
    IN  IF IsField(title_field)
        THEN [result EXCEPT
                !.title = get_stripped_subfield(title_field, "a"),
                !.subtitle = get_stripped_subfield(title_field, "b"),
                !.part_number = IF part_numbers # <<>>
                                THEN Join(part_numbers, <<",", " ">>) ELSE @,
                !.part_name = IF part_names # <<>>
                              THEN Join(part_names, <<",", " ">>) ELSE @]
        ELSE result

\* Lines 108-110.
ExtractEdition(result, record) ==
    LET edition_field == RecordGet(record, "250", NoField)
    IN  IF IsField(edition_field)
        THEN [result EXCEPT !.edition = get_stripped_subfield(edition_field, "a")]
        ELSE result

\* Lines 113-116.
ExtractAuthor(result, record) ==
    LET author == get_stripped_subfield(RecordGet(record, "100", EmptyDict), "a")
    IN  IF author # <<>>
        THEN [result EXCEPT !.authors = Append(@, reverse_name(author))]
        ELSE result

\* Lines 118-132.
ExtractPublication(result, record) ==
    LET pub_field == RecordGet(record, "260", NoField)
        year_published_subfield == get_stripped_subfield(pub_field, "c")
    IN  IF IsField(pub_field)
        THEN [result EXCEPT
                !.publisher = get_stripped_subfield(pub_field, "b"),
                !.year_published = IF year_published_subfield # <<>>
                                   THEN YearSearch(year_published_subfield) ELSE @,
                !.city_published = get_stripped_subfield(pub_field, "a")]
        ELSE result

PDF == <<"p", "d", "f">>

\* Lines 135-143 with the qualifier compared in the case it is written in.
ExtractIsbn_CaseSensitive(result, record) ==
    LET isbn_field == RecordGet(record, "020", NoField)
        isbn_type  == FieldGet(isbn_field, "q")
    IN  IF IsField(isbn_field)
        THEN IF Truthy(isbn_type)
             THEN IF ~Contains(isbn_type, PDF)
                  THEN [result EXCEPT !.isbn = get_stripped_subfield(isbn_field, "a")]
                  ELSE result
             ELSE [result EXCEPT !.isbn = get_stripped_subfield(isbn_field, "a")]
        ELSE result

\* Lines 135-143.
ExtractIsbn(result, record) ==
    LET isbn_field == RecordGet(record, "020", NoField)
        isbn_type  == FieldGet(isbn_field, "q")
    IN  IF IsField(isbn_field)
        THEN IF Truthy(isbn_type)
             THEN IF ~Contains(Lower(isbn_type), PDF)
                  THEN [result EXCEPT !.isbn = get_stripped_subfield(isbn_field, "a")]
                  ELSE result
             ELSE [result EXCEPT !.isbn = get_stripped_subfield(isbn_field, "a")]
        ELSE result

\* Lines 146-149.
ExtractSeries(result, record) ==
    LET series_field == RecordGet(record, "490", NoField)
    IN  IF IsField(series_field)
        THEN [result EXCEPT
                !.series = get_stripped_subfield(series_field, "a"),
                !.series_number = get_stripped_subfield(series_field, "v")]
        ELSE result

\* Lines 151-160.
ExtractPhysicalDescription(result, record) ==
    LET physical_description_field == RecordGet(record, "300", NoField)
        num_pages_subfield == get_stripped_subfield(physical_description_field, "a")
    IN  IF IsField(physical_description_field)
        THEN [result EXCEPT
                !.num_pages = IF num_pages_subfield # <<>>
                              THEN NumberMatch(num_pages_subfield) ELSE @,
                !.dimensions = get_stripped_subfield(physical_description_field, "c")]
        ELSE result

\* The offsets of the language code in the 008 value: value()[35:38].
LangFrom == 35

\* A slice that takes "35 through 37" for its end.
LangTo_Inclusive == LangFrom + 2

LangTo == 38

\* Lines 162-165.
ExtractLanguage(result, record) ==
    LET lang_field == RecordGet(record, "008", NoField)
    IN  IF IsField(lang_field)
        THEN [result EXCEPT !.language = Slice(lang_field.data, LangFrom, LangTo)]
        ELSE result

\* Lines 168-172.
ExtractOriginalLanguage(result, record) ==
    LET original_language_field == RecordGet(record, "041", NoField)
    IN  IF IsField(original_language_field)
        THEN [result EXCEPT
                !.original_language = get_stripped_subfield(original_language_field, "h")]
        ELSE result

\* Lines 175-178: the loop over the 655 fields.
RECURSIVE ExtractGenres(_, _)
ExtractGenres(result, fields) ==
    IF fields = <<>> THEN result
    ELSE LET genre == get_stripped_subfield(Head(fields), "a")
         IN  ExtractGenres(
                IF genre # <<>> THEN [result EXCEPT !.genres = Append(@, genre)]
                ELSE result,
                Tail(fields))

AUTOR == <<"a", "u", "t", "o", "r">>

TOIMETAJA == <<"t", "o", "i", "m", "e", "t", "a", "j", "a">>

VALJAANDJA == <<"v", "ä", "l", "j", "a", "a", "n", "d", "j", "a">>

KOOSTAJA == <<"k", "o", "o", "s", "t", "a", "j", "a">>

ILLUSTREERIJA == <<"i", "l", "l", "u", "s", "t", "r", "e", "e", "r", "i", "j", "a">>

TOLKIJA == <<"t", "õ", "l", "k", "i", "j", "a">>

KUJUNDAJA == <<"k", "u", "j", "u", "n", "d", "a", "j", "a">>

FOTOGRAAF == <<"f", "o", "t", "o", "g", "r", "a", "a", "f">>

\* Line 189 without the membership test.
AddsAuthor_NoMembershipTest(role, name, authors) == role = AUTOR

\* Line 189: "autor" == role and name not in result.authors.
AddsAuthor(role, name, authors) == role = AUTOR /\ ~InList(name, authors)

\* The dispatch with the role terms matched as substrings of the role.
Dispatch_Substring(result, role, name) ==
    LET r1 == IF Contains(role, AUTOR) /\ ~InList(name, result.authors)
              THEN [result EXCEPT !.authors = Append(@, name)]
              ELSE result
    IN  IF Contains(role, TOIMETAJA) THEN [r1 EXCEPT !.editors = Append(@, name)]
        ELSE IF Contains(role, VALJAANDJA) THEN [r1 EXCEPT !.publishers = Append(@, name)]
        ELSE IF Contains(role, KOOSTAJA) THEN [r1 EXCEPT !.compilers = Append(@, name)]
        ELSE IF Contains(role, ILLUSTREERIJA) THEN [r1 EXCEPT !.illustrators = Append(@, name)]
        ELSE IF Contains(role, TOLKIJA) THEN [r1 EXCEPT !.translators = Append(@, name)]
        ELSE IF Contains(role, KUJUNDAJA) THEN [r1 EXCEPT !.designers = Append(@, name)]
        ELSE IF Contains(role, FOTOGRAAF) THEN [r1 EXCEPT !.photographers = Append(@, name)]
        ELSE r1

\* Lines 189-204: one 700 field whose role and name are both non-empty.
Dispatch(result, role, name) ==
    LET r1 == IF AddsAuthor(role, name, result.authors)
              THEN [result EXCEPT !.authors = Append(@, name)]
              ELSE result
    IN  IF role = TOIMETAJA THEN [r1 EXCEPT !.editors = Append(@, name)]
        ELSE IF role = VALJAANDJA THEN [r1 EXCEPT !.publishers = Append(@, name)]
        ELSE IF role = KOOSTAJA THEN [r1 EXCEPT !.compilers = Append(@, name)]
        ELSE IF role = ILLUSTREERIJA THEN [r1 EXCEPT !.illustrators = Append(@, name)]
        ELSE IF role = TOLKIJA THEN [r1 EXCEPT !.translators = Append(@, name)]
        ELSE IF role = KUJUNDAJA THEN [r1 EXCEPT !.designers = Append(@, name)]
        ELSE IF role = FOTOGRAAF THEN [r1 EXCEPT !.photographers = Append(@, name)]
        ELSE r1

\* Lines 182-184: subfield e, or subfield 4 when the cleaned e is empty.
RoleOf(field) ==
    IF get_stripped_subfield(field, "e") # <<>>
    THEN get_stripped_subfield(field, "e")
    ELSE get_stripped_subfield(field, "4")

\* Lines 182-204: the body of the loop over the 700 fields.
ExtractRole(result, field) ==
    LET role == RoleOf(field)
        name == get_stripped_subfield(field, "a")
    IN  IF role # <<>> /\ name # <<>>
        THEN Dispatch(result, Lower(role), reverse_name(name))
        ELSE result

\* Lines 181-204: the loop over the 700 fields.
RECURSIVE ExtractRoles(_, _)
ExtractRoles(result, fields) ==
    IF fields = <<>> THEN result
    ELSE ExtractRoles(ExtractRole(result, Head(fields)), Tail(fields))

\* A conversion that cleans the identifier like every other value.
EsterId_Cleaned(record) == CleanValue(RecordGet(record, "001", NoField).data)

\* Line 85: record.get("001").value(), for a record that has the field.
EsterId(record) == RecordGet(record, "001", NoField).data

\* Lines 91-204: the record built for one input record that passed the filter.
Convert(record) ==
    LET r0  == ReadableRecord(EsterId(record))
        r1  == ExtractTitle(r0, record)
        r2  == ExtractEdition(r1, record)
        r3  == ExtractAuthor(r2, record)
        r4  == ExtractPublication(r3, record)
        r5  == ExtractIsbn(r4, record)
        r6  == ExtractSeries(r5, record)
        r7  == ExtractPhysicalDescription(r6, record)
        r8  == ExtractLanguage(r7, record)
        r9  == ExtractOriginalLanguage(r8, record)
        r10 == ExtractGenres(r9, GetFields(record, "655"))
    IN  ExtractRoles(r10, GetFields(record, "700"))

(***************************************************************************)
(* The inputs: parsed records, drawn from bounded sets                     *)
(***************************************************************************)

\* Every sequence over S of length 0..n.
SeqsUpTo(S, n) == UNION {[1..k -> S] : k \in 0..n}

MaxRecords == 2

MaxContributors == 2

MaxSubfields == 3

MaxQualifiers == 2

MaxNumLen == 5

MaxLen == 6

ID1 == <<"b", "1">>

ID2 == <<" ", "b", "2", ".">>

EST == <<"e", "s", "t">>

ENG == <<"e", "n", "g">>

\* 001 values; the second has blanks and punctuation that a cleanup would change.
Identifiers == {ID1, ID2}

\* A 008 value of n characters: fill characters, c at offset 23 (and its
\* neighbours at 22 and 24 as given), lang from offset 35 on, "d" from 38 on.
Fixed008(n, before, c, after, lang) ==
    [i \in 1..n |->
        IF i = 23 THEN before
        ELSE IF i = 24 THEN c
        ELSE IF i = 25 THEN after
        ELSE IF i \in 36..38 THEN lang[i - 35]
        ELSE IF i > 38 THEN "d"
        ELSE "|"]

FixedValues ==
    {Fixed008(40, "|", " ", "|", EST), Fixed008(40, "|", "q", "|", ENG),
     Fixed008(40, "q", "|", "s", EST),
     Fixed008(37, "|", "o", "|", ENG), Fixed008(36, "|", "s", "|", EST),
     Fixed008(23, "q", "|", "|", EST)}

\* Records that differ in their control fields: with and without 001 and 008.
ControlRecords ==
    LET ids    == {<<>>} \cup {<<ControlField("001", i)>> : i \in Identifiers}
        fixeds == {<<>>} \cup {<<ControlField("008", v)>> : v \in FixedValues}
    IN  {i \o f : i \in ids, f \in fixeds}

\* The control fields of the records below.
Prefix == <<ControlField("001", ID1), ControlField("008", Fixed008(40, "|", " ", "|", EST))>>

TAMM == <<"T", "a", "m", "m", ",", " ", "J">>

J_TAMM == <<"J", " ", "T", "a", "m", "m">>

KASK == <<"K", "a", "s", "k", ",", " ", "M">>

\* The 100 field: absent, "Surname, Given", "Given Surname." and one whose
\* cleaned name is empty.
Fields100 ==
    {<<>>,
     <<DataField("100", <<Subfield("a", TAMM)>>)>>,
     <<DataField("100", <<Subfield("a", J_TAMM \o <<".">>)>>)>>,
     <<DataField("100", <<Subfield("a", <<" ", ".">>)>>)>>}

\* 700 fields: the eight role terms, a role in another letter case and with
\* punctuation, a role that only contains a term, the fallback to subfield 4,
\* a field with no role and a field with no name.
Fields700 ==
    {DataField("700", <<Subfield("a", TAMM), Subfield("e", AUTOR)>>),
     DataField("700", <<Subfield("a", KASK), Subfield("e", AUTOR)>>),
     DataField("700", <<Subfield("a", J_TAMM), Subfield("e", <<"A", "u", "t", "o", "r", ".">>)>>),
     DataField("700", <<Subfield("a", TAMM), Subfield("e", KOOSTAJA)>>),
     DataField("700", <<Subfield("e", <<"K", "o", "o", "s", "t", "a", "j", "a", " ">>), Subfield("a", KASK)>>),
     DataField("700", <<Subfield("a", TAMM), Subfield("e", <<"k", "a", "a", "s", "k", "o", "o", "s", "t", "a", "j", "a">>)>>),
     DataField("700", <<Subfield("a", TAMM), Subfield("e", TOIMETAJA)>>),
     DataField("700", <<Subfield("a", KASK), Subfield("e", VALJAANDJA)>>),
     DataField("700", <<Subfield("a", TAMM), Subfield("e", ILLUSTREERIJA)>>),
     DataField("700", <<Subfield("a", KASK), Subfield("e", TOLKIJA)>>),
     DataField("700", <<Subfield("a", TAMM), Subfield("e", KUJUNDAJA)>>),
     DataField("700", <<Subfield("a", KASK), Subfield("e", FOTOGRAAF)>>),
     DataField("700", <<Subfield("a", KASK), Subfield("4", AUTOR)>>),
     DataField("700", <<Subfield("a", TAMM), Subfield("e", <<" ", ".">>), Subfield("4", <<"T", "Õ", "L", "K", "I", "J", "A">>)>>),
     DataField("700", <<Subfield("a", TAMM)>>),
     DataField("700", <<Subfield("e", KOOSTAJA)>>)}

ContributorRecords ==
    {Prefix \o a \o c : a \in Fields100, c \in SeqsUpTo(Fields700, MaxContributors)}

\* Values of the repeatable subfields n and p of the 245 field; two of them
\* are empty once cleaned.
PartValues == {<<"1">>, <<" ", ".">>, <<"[", "2", "]", ";">>, <<>>}

TitleSubfields ==
    {Subfield(c, v) : c \in {"n", "p"}, v \in PartValues}
        \cup {Subfield("a", <<"T", " ", "/">>)}

TitleRecords ==
    {Prefix \o <<DataField("245", subs)>> : subs \in SeqsUpTo(TitleSubfields, MaxSubfields)}

NumAlphabet == {"0", "1", "c", "["}

\* Records whose 260$c and 300$a hold the same string over NumAlphabet.
NumberRecords ==
    {Prefix \o <<DataField("260", <<Subfield("c", s)>>),
                 DataField("300", <<Subfield("a", s)>>)>> :
        s \in SeqsUpTo(NumAlphabet, MaxNumLen)}

ISBN == <<"9", "7", "-", "8", " ", ":">>

ISBN2 == <<"0", "-", "1">>

Qualifiers == {<<"P", "D", "F">>, <<"(", "e", "-", "p", "d", "f", ")">>, <<"p", "b", "k">>, <<>>}

\* Records with a 020 field with or without subfield a and with 0..MaxQualifiers
\* subfields q, alone or followed by a second 020 field.
IsbnRecords ==
    {Prefix \o <<DataField("020", a \o [i \in 1..Len(qs) |-> Subfield("q", qs[i])])>> \o more :
        a \in {<<>>, <<Subfield("a", ISBN)>>},
        qs \in SeqsUpTo(Qualifiers, MaxQualifiers),
        more \in {<<>>, <<DataField("020", <<Subfield("a", ISBN2)>>)>>}}

RichRecords == ContributorRecords \cup TitleRecords \cup NumberRecords \cup IsbnRecords

\* parse_xml_to_array(src): any sequence of up to MaxRecords control records,
\* or one record of RichRecords.
InputSequences ==
    SeqsUpTo(ControlRecords, MaxRecords) \cup {<<r>> : r \in RichRecords}

(***************************************************************************)
(* marcxml_to_readable as a state machine: one step per loop iteration     *)
(***************************************************************************)

\* Offset of the digital-medium code in the 008 value: fixed_field_value[23].
FormPos == 23

Init ==
    /\ records \in InputSequences
    /\ skip_digital \in BOOLEAN
    /\ idx = 1
    /\ results = <<>>
    /\ origin = <<>>
    /\ pc = "loop"
    /\ error = "none"
    /\ value = <<>>
    /\ cleaned = <<>>
    /\ recleaned = <<>>

InLoop == pc = "loop" /\ idx <= Len(records)

HasIdentifier(record) == IsField(RecordGet(record, "001", NoField))

HasFixed(record) == IsField(RecordGet(record, "008", NoField))

fixed_field_value(record) == RecordGet(record, "008", NoField).data

\* Line 88, for a value that has offset 23.
IsDigital(v) == v[FormPos + 1] = "q" \/ v[FormPos + 1] = "s"

Raise(e) ==
    /\ pc' = "raised"
    /\ error' = e
    /\ UNCHANGED <<records, skip_digital, idx, results, origin, value, cleaned, recleaned>>

\* Line 85: record.get("001") is None, and None has no value().
RaiseNoIdentifier ==
    /\ InLoop
    /\ ~HasIdentifier(records[idx])
    /\ Raise("AttributeError")

\* Line 87: record.get("008") is None, and None has no value().
RaiseNoFixedField ==
    /\ InLoop
    /\ HasIdentifier(records[idx])
    /\ skip_digital
    /\ ~HasFixed(records[idx])
    /\ Raise("AttributeError")

\* Line 88: fixed_field_value[23] of a value of at most 23 characters.
RaiseShortFixedField ==
    /\ InLoop
    /\ HasIdentifier(records[idx])
    /\ skip_digital
    /\ HasFixed(records[idx])
    /\ Len(fixed_field_value(records[idx])) <= FormPos
    /\ Raise("IndexError")

\* Lines 88-89: continue.
SkipDigital ==
    /\ InLoop
    /\ HasIdentifier(records[idx])
    /\ skip_digital
    /\ HasFixed(records[idx])
    /\ Len(fixed_field_value(records[idx])) > FormPos
    /\ IsDigital(fixed_field_value(records[idx]))
    /\ idx' = idx + 1
    /\ UNCHANGED <<records, skip_digital, results, origin, pc, error, value, cleaned, recleaned>>

\* Lines 91-206: the record is converted and appended.
AppendResult ==
    /\ InLoop
    /\ HasIdentifier(records[idx])
    /\ \/ ~skip_digital
       \/ /\ HasFixed(records[idx])
          /\ Len(fixed_field_value(records[idx])) > FormPos
          /\ ~IsDigital(fixed_field_value(records[idx]))
    /\ results' = Append(results, Convert(records[idx]))
    /\ origin' = Append(origin, idx)
    /\ idx' = idx + 1
    /\ UNCHANGED <<records, skip_digital, pc, error, value, cleaned, recleaned>>

\* Line 208.
Return ==
    /\ pc = "loop"
    /\ idx > Len(records)
    /\ pc' = "returned"
    /\ UNCHANGED <<records, skip_digital, idx, results, origin, error, value, cleaned, recleaned>>

Next ==
    \/ RaiseNoIdentifier
    \/ RaiseNoFixedField
    \/ RaiseShortFixedField
    \/ SkipDigital
    \/ AppendResult
    \/ Return

Spec == Init /\ [][Next]_vars

(***************************************************************************)
(* get_stripped_subfield applied to a value, and again to its own result   *)
(***************************************************************************)

CleanAlphabet == {"a", " ", "\n", "[", "]", ";"}

InitCleanup ==
    /\ value \in SeqsUpTo(CleanAlphabet, MaxLen)
    /\ cleaned = <<>>
    /\ recleaned = <<>>
    /\ pc = "value"
    /\ records = <<>>
    /\ skip_digital = FALSE
    /\ idx = 1
    /\ results = <<>>
    /\ origin = <<>>
    /\ error = "none"

\* get_stripped_subfield(field, "a") for a field whose subfield a is value.
CleanOnce ==
    /\ pc = "value"
    /\ cleaned' = get_stripped_subfield(DataField("245", <<Subfield("a", value)>>), "a")
    /\ pc' = "cleaned"
    /\ UNCHANGED <<records, skip_digital, idx, results, origin, error, value, recleaned>>

\* The same call for a field whose subfield a is the cleaned value.
CleanAgain ==
    /\ pc = "cleaned"
    /\ recleaned' = get_stripped_subfield(DataField("245", <<Subfield("a", cleaned)>>), "a")
    /\ pc' = "recleaned"
    /\ UNCHANGED <<records, skip_digital, idx, results, origin, error, value, cleaned>>

NextCleanup == CleanOnce \/ CleanAgain

SpecCleanup == InitCleanup /\ [][NextCleanup]_vars

(***************************************************************************)
(* Properties of marcxml_to_readable                                       *)
(***************************************************************************)

\* The call has returned results.
Returned == pc = "returned"

\* The input record the k-th output record was built from.
Source(k) == records[origin[k]]

Produced(i) == \E k \in 1..Len(origin) : origin[k] = i

AllIdentified == \A i \in 1..Len(records) : HasIdentifier(records[i])

\* C1: every output record carries the unmodified 001 value of the input
\* record it was built from, the output records are in the order of their
\* input records, and when every record has a 001 field and skip_digital is
\* false the call returns exactly one output record per input record.
C1_IdentifierVerbatimInOrder ==
    /\ Len(origin) = Len(results)
    /\ \A k \in 1..Len(results) :
          /\ origin[k] \in 1..Len(records)
          /\ HasIdentifier(Source(k))
          /\ results[k].ester_id = RecordGet(Source(k), "001", NoField).data
    /\ \A k, l \in 1..Len(results) : k < l => origin[k] < origin[l]
    /\ (AllIdentified /\ ~skip_digital) =>
          /\ pc # "raised"
          /\ pc = "returned" =>
                /\ Len(results) = Len(records)
                /\ \A k \in 1..Len(results) : origin[k] = k

\* Two records with different identifiers, one of them with blanks and
\* punctuation around it, were converted and returned.
C1_Witness ==
    /\ pc = "returned"
    /\ Len(results) = 2
    /\ results[1].ester_id = ID2
    /\ results[2].ester_id = ID1

\* C2: for a record that has the 001 field nothing else that is missing makes
\* the conversion raise: the call raises only at a record without 001.
C2_MissingOptionalNeverRaises ==
    pc = "raised" => ~HasIdentifier(records[idx])

\* Whether the digital filter of lines 86-89 applies to a 008 value.
Position23IsDigital(record) ==
    /\ HasFixed(record)
    /\ Len(fixed_field_value(record)) > FormPos
    /\ fixed_field_value(record)[FormPos + 1] \in {"q", "s"}

\* C5: once the call has ended on records that all have a 001 field, with
\* skip_digital true a record has no output record exactly when position 23
\* of its 008 value is q or s, and with skip_digital false every record has
\* an output record.
C5_DigitalFilter ==
    (pc # "loop" /\ AllIdentified) =>
        \A i \in 1..Len(records) :
            (pc = "returned" /\ Produced(i))
                <=> ~(skip_digital /\ Position23IsDigital(records[i]))

\* C10: the language of every output record whose input has a 008 field is
\* the three characters at offsets 35, 36 and 37 of the 008 value.
C10_LanguageThreeCharacters ==
    Returned =>
        \A k \in 1..Len(results) :
            HasFixed(Source(k)) =>
                /\ Len(results[k].language) = 3
                /\ \A j \in 1..3 :
                      results[k].language[j] = fixed_field_value(Source(k))[35 + j]

\* C10 as amended: for a 008 value of at least 38 characters the language is
\* the three characters at offsets 35..37; for a shorter value it is what the
\* value has from offset 35 on, which is 0, 1 or 2 characters; without a 008
\* field it is empty.
C10_LanguageIsSliceOfFixedField ==
    Returned =>
        \A k \in 1..Len(results) :
            LET v    == fixed_field_value(Source(k))
                lang == results[k].language
            IN  /\ ~HasFixed(Source(k)) => lang = <<>>
                /\ (HasFixed(Source(k)) /\ Len(v) >= 38) =>
                      /\ Len(lang) = 3
                      /\ \A j \in 1..3 : lang[j] = v[35 + j]
                /\ (HasFixed(Source(k)) /\ Len(v) < 38) =>
                      /\ Len(lang) = (IF Len(v) > 35 THEN Len(v) - 35 ELSE 0)
                      /\ \A j \in 1..Len(lang) : lang[j] = v[35 + j]

\* A record with a 008 value of 37 characters was converted: its language
\* has two characters; and one with a full 008 value has its three.
C10_Witness ==
    /\ Returned
    /\ Len(results) = 2
    /\ Len(fixed_field_value(Source(1))) = 37
    /\ Len(results[1].language) = 2
    /\ Len(fixed_field_value(Source(2))) = 40
    /\ results[2].language = ENG

(***************************************************************************)
(* Properties of get_stripped_subfield                                     *)
(***************************************************************************)

\* s has a "[" with a "]" somewhere after it.
HasBracketPair(s) ==
    \E i, j \in 1..Len(s) : i < j /\ s[i] = "[" /\ s[j] = "]"

\* s has a "[" between a "[" and the first "]" that follows it.
HasNestedBracket(s) ==
    \E i, j, k \in 1..Len(s) :
        /\ i < j /\ j < k
        /\ s[i] = "[" /\ s[j] = "[" /\ s[k] = "]"
        /\ \A m \in (i + 1)..(j - 1) : s[m] # "]"

HasLineBreak(s) == \E i \in 1..Len(s) : s[i] = "\n"

\* C3: cleaning an already cleaned value returns that same value, for every
\* input string.
C3_CleanupIdempotent ==
    pc = "recleaned" => recleaned = cleaned

\* C3 as amended: cleaning a cleaned value returns the same value exactly
\* when the cleaned value has no "[" with a "]" after it; that is so for
\* every input on one line without nested brackets, whatever its unbalanced
\* brackets and the punctuation next to them.
C3_IdempotentUnlessBracketsRemain ==
    pc = "recleaned" =>
        /\ (recleaned = cleaned) <=> ~HasBracketPair(cleaned)
        /\ (~HasNestedBracket(value) /\ ~HasLineBreak(value)) => recleaned = cleaned

\* A value with a bracket pair, an unbalanced bracket and punctuation next to a
\* bracket was cleaned twice, the first time to something else that is not empty.
C3_Witness ==
    /\ pc = "recleaned"
    /\ \E i \in 1..Len(value) - 3 :
          SubSeq(value, i, i + 3) = <<"[", "a", "]", ";">>
    /\ \E i \in 1..Len(value) - 1 : SubSeq(value, i, i + 1) = <<"]", "a">>
    /\ cleaned # <<>>
    /\ cleaned # value
    /\ recleaned = cleaned

(***************************************************************************)
(* Properties of the converted records                                     *)
(***************************************************************************)

\* The non-empty members of a list of strings, in order.
NonEmpty(list) == SelectSeq(list, LAMBDA x : x # <<>>)

\* C4: the values get_stripped_subfields returns for the subfields n and p of
\* the 245 field are never empty, and part_number and part_name are the
\* non-empty cleaned values joined with ", ".
C4_NoEmptyPart ==
    Returned =>
        \A k \in 1..Len(results) :
            LET title_field == RecordGet(Source(k), "245", NoField)
                numbers     == get_stripped_subfields(title_field, "n")
                names       == get_stripped_subfields(title_field, "p")
            IN  IsField(title_field) =>
                  /\ \A i \in 1..Len(numbers) : numbers[i] # <<>>
                  /\ \A i \in 1..Len(names) : names[i] # <<>>
                  /\ results[k].part_number = Join(NonEmpty(numbers), <<",", " ">>)
                  /\ results[k].part_name = Join(NonEmpty(names), <<",", " ">>)

\* The cleaned, reordered name of the 100 field (empty when there is none).
PrimaryAuthor(record) ==
    LET a == get_stripped_subfield(RecordGet(record, "100", EmptyDict), "a")
    IN  IF a = <<>> THEN <<>> ELSE reverse_name(a)

\* The cleaned, lower-cased role and the cleaned, reordered name of a 700 field.
RoleTerm(field) == Lower(RoleOf(field))

ContributorName(field) ==
    LET a == get_stripped_subfield(field, "a")
    IN  IF a = <<>> THEN <<>> ELSE reverse_name(a)

\* The role term and the name of every 700 field of a record, in field order.
Contributors(record) ==
    LET fs == GetFields(record, "700")
    IN  [i \in 1..Len(fs) |-> [role |-> RoleTerm(fs[i]), name |-> ContributorName(fs[i])]]

\* The names of the contributors whose role is the term, in field order.
NamesWithRole(cs, term) ==
    LET hits == SelectSeq(cs, LAMBDA c : c.role = term /\ c.name # <<>>)
    IN  [i \in 1..Len(hits) |-> hits[i].name]

\* C6: no author list has a string twice; the 100 author is first; a 700
\* contributor with role "autor" is in the list, and nobody else is.
C6_AuthorsDistinct ==
    Returned =>
        \A k \in 1..Len(results) :
            LET authors == results[k].authors
                primary == PrimaryAuthor(Source(k))
                others  == NamesWithRole(Contributors(Source(k)), AUTOR)
            IN  /\ \A i, j \in 1..Len(authors) : i # j => authors[i] # authors[j]
                /\ primary # <<>> => (authors # <<>> /\ authors[1] = primary)
                /\ \A i \in 1..Len(others) : InList(others[i], authors)
                /\ \A i \in 1..Len(authors) :
                      authors[i] = primary \/ InList(authors[i], others)

\* A record whose 100 author is named again, in another form, by a 700 field
\* with role "Autor." and whose second 700 field names another author.
C6_Witness ==
    /\ Returned
    /\ \E k \in 1..Len(results) :
        /\ PrimaryAuthor(Source(k)) = <<"J", " ", "T", "a", "m", "m">>
        /\ NamesWithRole(Contributors(Source(k)), AUTOR)
              = << <<"J", " ", "T", "a", "m", "m">>, <<"M", " ", "K", "a", "s", "k">> >>
        /\ Len(results[k].authors) = 2

SevenTerms ==
    {TOIMETAJA, VALJAANDJA, KOOSTAJA, ILLUSTREERIJA, TOLKIJA, KUJUNDAJA, FOTOGRAAF}

\* The list of an output record that belongs to a role term.
ListOf(r, term) ==
    CASE term = TOIMETAJA -> r.editors
      [] term = VALJAANDJA -> r.publishers
      [] term = KOOSTAJA -> r.compilers
      [] term = ILLUSTREERIJA -> r.illustrators
      [] term = TOLKIJA -> r.translators
      [] term = KUJUNDAJA -> r.designers
      [] term = FOTOGRAAF -> r.photographers

RECURSIVE SumLen(_, _)
SumLen(r, terms) ==
    IF terms = {} THEN 0
    ELSE LET t == CHOOSE x \in terms : TRUE
         IN  Len(ListOf(r, t)) + SumLen(r, terms \ {t})

\* C7: each of the seven non-author lists holds, in field order and with
\* duplicates, the names of the 700 fields whose cleaned, lower-cased role (e,
\* or 4 when e is empty) equals the list's term; and the eight lists together
\* have at most one entry per 700 field with a role and a name, besides the
\* 100 author.
C7_RoleDispatchExact ==
    Returned =>
        \A k \in 1..Len(results) :
            LET cs == Contributors(Source(k))
            IN  /\ \A term \in SevenTerms :
                      ListOf(results[k], term) = NamesWithRole(cs, term)
                /\ Len(results[k].authors) + SumLen(results[k], SevenTerms)
                      <= (IF PrimaryAuthor(Source(k)) # <<>> THEN 1 ELSE 0)
                         + Cardinality({i \in 1..Len(cs) :
                                cs[i].role # <<>> /\ cs[i].name # <<>>})

\* A record with the roles "Koostaja " and "kaaskoostaja": the first, cleaned
\* and lower-cased, is the term and fills the compiler list; the second only
\* contains the term and fills no list.
C7_Witness ==
    /\ Returned
    /\ \E k \in 1..Len(results) :
        LET fs == GetFields(Source(k), "700")
        IN  /\ Len(fs) = 2
            /\ FieldGet(fs[2], "e") = <<"K", "o", "o", "s", "t", "a", "j", "a", " ">>
            /\ RoleTerm(fs[1]) # KOOSTAJA
            /\ Contains(RoleTerm(fs[1]), KOOSTAJA)
            /\ ContributorName(fs[1]) # <<>>
            /\ results[k].compilers = << <<"M", " ", "K", "a", "s", "k">> >>
            /\ SumLen(results[k], SevenTerms) = 1
            /\ results[k].authors = <<>>

\* The value of the decimal digits s[from..to].
RECURSIVE Decimal(_, _, _)
Decimal(s, from, to) ==
    IF from > to THEN 0
    ELSE DigitValue(s[from]) * (10 ^ (to - from)) + Decimal(s, from + 1, to)

\* C8: year_published and num_pages are absent or a non-negative integer;
\* year_published is the value of the first four consecutive digits of the
\* cleaned 260$c and absent when there are none; num_pages is the value of the
\* digits the cleaned 300$a starts with and absent when it starts with none.
C8_NumbersAbsentOrNatural ==
    Returned =>
        \A k \in 1..Len(results) :
            LET c     == get_stripped_subfield(RecordGet(Source(k), "260", NoField), "c")
                a     == get_stripped_subfield(RecordGet(Source(k), "300", NoField), "a")
                year  == results[k].year_published
                pages == results[k].num_pages
                runs  == {i \in 1..(Len(c) - 3) : \A j \in 0..3 : IsDigit(c[i + j])}
                lead  == {n \in 1..Len(a) : \A j \in 1..n : IsDigit(a[j])}
            IN  /\ year = NoInt \/ (Len(year) = 1 /\ year[1] \in Nat)
                /\ pages = NoInt \/ (Len(pages) = 1 /\ pages[1] \in Nat)
                /\ (year = NoInt) <=> (runs = {})
                /\ \A i \in runs :
                      (\A h \in runs : i <= h) => year = <<Decimal(c, i, i + 3)>>
                /\ (pages = NoInt) <=> (lead = {})
                /\ \A n \in lead :
                      (\A m \in lead : m <= n) => pages = <<Decimal(a, 1, n)>>

\* A record whose 260$c and 300$a are "[1011", cleaned to "1011", was
\* converted: both numbers are 1011.
C8_Witness ==
    /\ Returned
    /\ \E k \in 1..Len(results) :
        /\ FieldGet(RecordGet(Source(k), "260", NoField), "c") = <<"[", "1", "0", "1", "1">>
        /\ FieldGet(RecordGet(Source(k), "300", NoField), "a") = <<"[", "1", "0", "1", "1">>
        /\ results[k].year_published = <<1011>>
        /\ results[k].num_pages = <<1011>>

\* C9: the isbn of a record with a 020 field is empty whenever some subfield
\* q of that field contains "pdf" in any letter case, and is the cleaned
\* subfield a otherwise; the record is produced either way.
C9_AnyPdfQualifierSuppresses ==
    /\ Returned =>
        \A k \in 1..Len(results) :
              LET isbn_field == RecordGet(Source(k), "020", NoField)
                  qs         == GetSubfields(isbn_field, "q")
              IN  IsField(isbn_field) =>
                    results[k].isbn =
                        IF \E i \in 1..Len(qs) : Contains(Lower(qs[i]), PDF)
                        THEN <<>>
                        ELSE get_stripped_subfield(isbn_field, "a")
    /\ \A i \in 1..Len(records) :
          (i < idx /\ ~(skip_digital /\ Position23IsDigital(records[i]))) => Produced(i)

\* C9 as amended: the isbn is empty whenever the first subfield q of the first
\* 020 field contains "pdf" in any letter case, and is the cleaned subfield a
\* otherwise (also when a later q contains "pdf"); the record is produced
\* either way, unless the digital filter skips it.
C9_FirstPdfQualifierSuppresses ==
    /\ Returned =>
        \A k \in 1..Len(results) :
              LET isbn_field == RecordGet(Source(k), "020", NoField)
                  qs         == GetSubfields(isbn_field, "q")
              IN  /\ IsField(isbn_field) =>
                        results[k].isbn =
                            IF qs # <<>> /\ Contains(Lower(qs[1]), PDF)
                            THEN <<>>
                            ELSE get_stripped_subfield(isbn_field, "a")
                  /\ ~IsField(isbn_field) => results[k].isbn = <<>>
    /\ \A i \in 1..Len(records) :
          (i < idx /\ ~(skip_digital /\ Position23IsDigital(records[i]))) => Produced(i)

\* A record whose 020 field has a subfield a and the single qualifier "PDF"
\* was converted with an empty isbn.
C9_Witness ==
    /\ Returned
    /\ \E k \in 1..Len(results) :
        LET isbn_field == RecordGet(Source(k), "020", NoField)
        IN  /\ GetSubfields(isbn_field, "q") = << <<"P", "D", "F">> >>
            /\ get_stripped_subfield(isbn_field, "a") # <<>>
            /\ results[k].isbn = <<>>

====
